---- MODULE Spec2Model ----
(***************************************************************************)
(* Model of remove_dupes.py: a duplicate-file remover that recognises      *)
(* duplicates by a marker (a space) in the file name, optionally verifies  *)
(* them by SHA-1 digest, and reports or deletes them, directory by         *)
(* directory.                                                              *)
(*                                                                         *)
(* Strings are sequences of one-character strings, so that split, rfind,   *)
(* endswith, substring tests and glob patterns are computed as Python      *)
(* computes them.  Paths are POSIX paths (os.path.sep = "/").  File names  *)
(* of the model contain none of the characters * ? ! - so that the only    *)
(* glob metacharacters a name can carry into a pattern are [ and ].        *)
(***************************************************************************)
EXTENDS Naturals, Sequences, FiniteSets, TLC

----------------------------------------------------------------------------
(* String helpers (Python str methods used by the program) *)

Range(s) == {s[i] : i \in 1..Len(s)}

\* s.startswith(pre)
StartsWith(s, pre) ==
    /\ Len(pre) <= Len(s)
    /\ SubSeq(s, 1, Len(pre)) = pre

\* s.endswith(suf)
EndsWith(s, suf) ==
    /\ Len(suf) <= Len(s)
    /\ SubSeq(s, Len(s) - Len(suf) + 1, Len(s)) = suf

\* sub in s
Contains(s, sub) ==
    \E i \in 1..(Len(s) + 1) :
        /\ i + Len(sub) - 1 <= Len(s)
        /\ SubSeq(s, i, i + Len(sub) - 1) = sub

\* s.find(c) and s.rfind(c) for a one-character c, as 1-based positions; 0 when absent
Find(s, c) ==
    LET at == {i \in 1..Len(s) : s[i] = c}
    IN  IF at = {} THEN 0 ELSE CHOOSE i \in at : \A j \in at : i <= j

RFind(s, c) ==
    LET at == {i \in 1..Len(s) : s[i] = c}
    IN  IF at = {} THEN 0 ELSE CHOOSE i \in at : \A j \in at : j <= i

\* s.split(c)[0]
SplitFirst(s, c) == LET k == Find(s, c) IN IF k = 0 THEN s ELSE SubSeq(s, 1, k - 1)

\* s.split(c)[-1]
SplitLast(s, c) == SubSeq(s, RFind(s, c) + 1, Len(s))

\* s[s.rfind(c)+1:]   (rfind = -1 when absent, so the slice is then all of s)
AfterLast(s, c) == SubSeq(s, RFind(s, c) + 1, Len(s))

\* os.path.sep
Sep == "/"

\* os.path.join(base, name), name not absolute
Join(base, name) == base \o <<Sep>> \o name

\* os.path.split(p): head without the trailing separator, and tail
DirName(p) == LET k == RFind(p, Sep) IN IF k = 0 THEN <<>> ELSE SubSeq(p, 1, k - 1)
BaseName(p) == SplitLast(p, Sep)

----------------------------------------------------------------------------------------------------------------------------------------
(* fnmatch.fnmatchcase(name, pat) for patterns over literals, "*", "?" and  *)
(* bracket classes without "!" or "-" (the model's names have neither)      *)

\* glob.has_magic
HasMagic(s) == \E i \in 1..Len(s) : s[i] \in {"*", "?", "["}

\* index of the "]" closing the class opened at pat[i] = "[", 0 when there is none;
\* a "]" right after the "[" belongs to the class
ClassEnd(pat, i) ==
    LET from == IF i + 1 <= Len(pat) /\ pat[i + 1] = "]" THEN i + 2 ELSE i + 1
        closers == {j \in from..Len(pat) : pat[j] = "]"}
    IN  IF closers = {} THEN 0
        ELSE CHOOSE j \in closers : \A k \in closers : j <= k

\* name[i..] matches pat[j..].  A "*" followed only by literal text matches exactly
\* when that text ends the name and begins at or after i.
RECURSIVE MatchFrom(_, _, _, _)
MatchFrom(name, pat, i, j) ==
    IF j > Len(pat) THEN i > Len(name)
    ELSE IF pat[j] = "*"
         THEN LET rest == SubSeq(pat, j + 1, Len(pat))
              IN  IF HasMagic(rest)
                  THEN \E k \in i..(Len(name) + 1) : MatchFrom(name, pat, k, j + 1)
                  ELSE Len(rest) + i <= Len(name) + 1 /\ EndsWith(name, rest)
    ELSE IF i > Len(name) THEN FALSE
    ELSE IF pat[j] = "?"
         THEN MatchFrom(name, pat, i + 1, j + 1)
    ELSE IF pat[j] = "[" /\ ClassEnd(pat, j) # 0
         THEN LET e == ClassEnd(pat, j)
              IN  /\ name[i] \in {pat[k] : k \in (j + 1)..(e - 1)}
                  /\ MatchFrom(name, pat, i + 1, e + 1)
    ELSE /\ name[i] = pat[j]
         /\ MatchFrom(name, pat, i + 1, j + 1)

FnMatch(name, pat) == MatchFrom(name, pat, 1, 1)

\* glob._ishidden
IsHidden(s) == Len(s) > 0 /\ s[1] = "."

----------------------------------------------------------------------------
(* Bounds of the model *)

\* entries a directory may hold
MaxFiles == 3
\* entries in the whole tree when the tree has subdirectories
MaxEntries == 4
\* files an external process removes while the program runs
MaxExternal == 1

\* The base directory given on the command line; its name contains the marker.
BasePath == <<"m", " ", "p">>

\* get_originals / get_dupes default indicator=' '
Indicator == <<" ">>

\* get_all_files default filetypes
FileTypes ==
    << <<"j", "p", "e", "g">>, <<"J", "P", "G">>, <<"j", "p", "g">>,
       <<"g", "i", "f">>, <<"G", "I", "F">>, <<"p", "n", "g">>,
       <<"P", "N", "G">>, <<"m", "o", "v">>, <<"M", "O", "V">>,
       <<"m", "p", "4">> >>

\* Directory entries the environment may create: name, kind, content.
File(n, d) == [name |-> n, isdir |-> FALSE, data |-> d]
Dir(n) == [name |-> n, isdir |-> TRUE, data |-> 0]

N_a     == <<"a", ".", "j", "p", "g">>
N_a1    == <<"a", " ", "1", ".", "j", "p", "g">>
N_a2    == <<"a", " ", "2", ".", "j", "p", "g">>
N_a_b   == <<"a", ".", "b", ".", "j", "p", "g">>
N_a1x   == <<"a", " ", "1", ".", "x", "j", "p", "g">>
N_a1png == <<"a", " ", "1", ".", "p", "n", "g">>
N_br    == <<"a", "[", "b", "]", ".", "j", "p", "g">>
N_br1   == <<"a", "[", "b", "]", " ", "1", ".", "j", "p", "g">>
N_ab1   == <<"a", "b", " ", "1", ".", "j", "p", "g">>
N_a3    == <<"a", " ", "3", ".", "j", "p", "g">>
N_d     == <<"d">>
N_brd   == <<"[", "d", "]">>

\* entries of the single-directory specification
DirUniverse ==
    { File(N_a, 0), File(N_a1, 0), File(N_a2, 1), File(N_a_b, 1),
      File(N_a1x, 0), File(N_a1png, 0),
      File(N_br, 0), File(N_br1, 0), File(N_ab1, 0), Dir(N_a3) }

\* entries of the whole-program specification
TreeUniverse ==
    { File(N_a, 0), File(N_a1, 0), File(N_a2, 1), Dir(N_a3), Dir(N_d), Dir(N_brd) }

----------------------------------------------------------------------------
VARIABLES
    fs,           \* the file system: path -> [isdir, names (listing order), data]
    pc,           \* where the program is
    recursive, verify_hash, do_del,    \* command-line flags
    stack,        \* one frame per active main(): the subdirectories still to visit
    base_path, root_images, originals, \* locals of main
    oi, cur_dupes, dupes,              \* locals of get_dupes
    si, fi,                            \* loop positions of remove_dupes
    out,          \* what was printed
    error,        \* the exception that ended the run: [at, kind], "none" if none
    run, out1,    \* number of the run, and the report of the first run
    fs0,          \* the file system when the first run started
    extN,         \* files removed by the external process so far
    calls,        \* the base_path of every main() call, in order
    found,        \* the root_images of every main() call, in order
    attempts,     \* every os.remove call: [dir, path, result]
    resolved      \* per original get_dupes has resolved: [call, orig, set]

vars == << fs, pc, recursive, verify_hash, do_del, stack, base_path, root_images,
           originals, oi, cur_dupes, dupes, si, fi, out, error, run, out1, fs0,
           extN, calls, found, attempts, resolved >>

----------------------------------------------------------------------------
(* The file system *)

Exists(p) == p \in DOMAIN fs
IsDir(p) == p \in DOMAIN fs /\ fs[p].isdir
IsFile(p) == p \in DOMAIN fs /\ ~fs[p].isdir

\* the file system after path p is unlinked
Unlink(f, p) ==
    [q \in DOMAIN f \ {p} |->
        IF q = DirName(p)
        THEN [f[q] EXCEPT !.names = SelectSeq(@, LAMBDA n : n # BaseName(p))]
        ELSE f[q]]

\* the file system after entry t is created in directory d
AddEntry(f, d, t) ==
    [q \in DOMAIN f \cup {Join(d, t.name)} |->
        IF q = Join(d, t.name) THEN [isdir |-> t.isdir, names |-> <<>>, data |-> t.data]
        ELSE IF q = d THEN [f[q] EXCEPT !.names = Append(@, t.name)]
        ELSE f[q]]

\* os.remove(p): what it raises ("ok" when it removes the file)
OsRemove(p) ==
    IF ~Exists(p) THEN "FileNotFoundError"
    ELSE IF IsDir(p) THEN "IsADirectoryError"
    ELSE "ok"

\* open(p, 'rb') in hash_file: what it raises
OpenRead(p) ==
    IF ~Exists(p) THEN "FileNotFoundError"
    ELSE IF IsDir(p) THEN "IsADirectoryError"
    ELSE "ok"

\* hashlib.sha1 over the whole content: a digest determined by the content alone,
\* distinct for the distinct contents of the model
hash_file(p) == <<"sha1", fs[p].data>>

----------------------------------------------------------------------------
(* glob.glob *)

\* concatenation of F(x) over the elements x of a sequence, in order
RECURSIVE FlatMap(_, _)
FlatMap(F(_), s) == IF s = <<>> THEN <<>> ELSE F(Head(s)) \o FlatMap(F, Tail(s))

\* glob._listdir: the names in a directory in listing order, or nothing if it cannot
\* be listed
ListDir(d, dironly) ==
    IF ~IsDir(d) THEN <<>>
    ELSE IF dironly THEN SelectSeq(fs[d].names, LAMBDA n : IsDir(Join(d, n)))
    ELSE fs[d].names

\* glob._glob1: the names in directory d matching a pattern with metacharacters
Glob1(d, pattern, dironly) ==
    SelectSeq(ListDir(d, dironly),
              LAMBDA n : /\ IsHidden(pattern) \/ ~IsHidden(n)
                         /\ FnMatch(n, pattern))

\* glob._glob0: a literal last segment
Glob0(d, basename, dironly) ==
    IF Exists(Join(d, basename)) THEN <<basename>> ELSE <<>>

\* glob._iglob for a pattern with a directory part
RECURSIVE IGlob(_, _)
IGlob(pathname, dironly) ==
    IF ~HasMagic(pathname)
    THEN IF Exists(pathname) THEN <<pathname>> ELSE <<>>
    ELSE LET dirname == DirName(pathname)
             basename == BaseName(pathname)
             dirs == IF HasMagic(dirname) THEN IGlob(dirname, TRUE) ELSE <<dirname>>
             InDir(d) ==
                 LET matched == IF HasMagic(basename)
                                THEN Glob1(d, basename, dironly)
                                ELSE Glob0(d, basename, dironly)
                 IN  [k \in 1..Len(matched) |-> Join(d, matched[k])]
         IN  FlatMap(InDir, dirs)

Glob(pathname) == IGlob(pathname, FALSE)

----------------------------------------------------------------------------
(* The components of the program *)

\* get_all_files(base_path)
get_all_files(base) ==
    FlatMap(LAMBDA ft : Glob(Join(base, <<"*", ".">> \o ft)), FileTypes)

\* a faulty variant of the test below: the indicator is looked for in the whole path
IsOriginalWholePath(p) == ~Contains(p, Indicator)

\* the test of get_originals: the indicator is not in the final path segment
IsOriginal(p) == ~Contains(SplitLast(p, Sep), Indicator)

\* get_originals(all_images)
get_originals(all_images) == SelectSeq(all_images, IsOriginal)

\* get_dupes: the name of the original image
PicName(pic_path) == SplitFirst(SplitLast(pic_path, Sep), ".")

\* get_dupes: the filetype of the image
FileType(pic_path) == AfterLast(pic_path, ".")

\* a faulty variant of the filter below: the indicator is not asked for
KeepDupeNoMarker(p, pic_path) == EndsWith(p, FileType(pic_path))

\* get_dupes: the filter applied to the glob's results
KeepDupe(p, pic_path) ==
    /\ Contains(SplitLast(p, Sep), Indicator)
    /\ EndsWith(p, FileType(pic_path))

\* get_dupes: cur_dupes of one original, before verification
CurDupes(base, pic_path) ==
    SelectSeq(Glob(Join(base, PicName(pic_path) \o <<"*">>)),
              LAMBDA p : KeepDupe(p, pic_path))

\* get_dupes with verify_hashes: the files opened, in order
HashOrder(pic_path, cur) == <<pic_path>> \o cur

\* the first exception hash_file raises over a sequence of paths, "ok" if none
RECURSIVE FirstError(_)
FirstError(paths) ==
    IF paths = <<>> THEN "ok"
    ELSE IF OpenRead(Head(paths)) # "ok" THEN OpenRead(Head(paths))
    ELSE FirstError(Tail(paths))

\* get_dupes with verify_hashes: the hash comparison
SameHash(dupe, pic_path) == hash_file(dupe) = hash_file(pic_path)

\* get_dupes with verify_hashes: cur_dupes after verification
Verified(pic_path, cur) == SelectSeq(cur, LAMBDA dupe : SameHash(dupe, pic_path))

\* get_dupes: "if len(cur_dupes): dupes.append(cur_dupes)"
AppendDupes(all, cur) == IF Len(cur) > 0 THEN Append(all, cur) ELSE all

\* main: the subdirectories of base_path, in listing order
SubDirs(base) ==
    LET ds == SelectSeq(fs[base].names, LAMBDA d : IsDir(Join(base, d)))
    IN  [k \in 1..Len(ds) |-> Join(base, ds[k])]

----------------------------------------------------------------------------
(* Initial state: an empty base directory, which the environment fills      *)
(* before the program starts                                                *)

NoError == [at |-> "none", kind |-> "none"]

EmptyFs == (BasePath :> [isdir |-> TRUE, names |-> <<>>, data |-> 0])

Init ==
    /\ fs = EmptyFs
    /\ pc = "setup"
    /\ recursive = FALSE /\ verify_hash = FALSE /\ do_del = FALSE
    /\ stack = <<>>
    /\ base_path = BasePath
    /\ root_images = <<>> /\ originals = <<>>
    /\ oi = 1 /\ cur_dupes = <<>> /\ dupes = <<>>
    /\ si = 1 /\ fi = 1
    /\ out = <<>>
    /\ error = NoError
    /\ run = 1 /\ out1 = <<>>
    /\ fs0 = EmptyFs
    /\ extN = 0
    /\ calls = <<>> /\ found = <<>> /\ attempts = <<>> /\ resolved = <<>>

progVars == << recursive, verify_hash, do_del, stack, base_path, root_images,
               originals, oi, cur_dupes, dupes, si, fi, out, error, run, out1,
               calls, found, attempts, resolved >>

\* entries in the whole tree
Entries(f) == Cardinality(DOMAIN f) - 1

\* The environment creates entry t in directory d before the program starts.
Create(d, t, universe, maxTotal) ==
    /\ pc = "setup"
    /\ IsDir(d)
    /\ t \in universe
    /\ t.name \notin Range(fs[d].names)
    /\ Len(fs[d].names) < MaxFiles
    /\ Entries(fs) < maxTotal
    /\ fs' = AddEntry(fs, d, t)
    /\ fs0' = fs'
    /\ UNCHANGED << pc, extN >>
    /\ UNCHANGED progVars

\* a single directory of files
CreateFile == \E t \in DirUniverse : Create(BasePath, t, DirUniverse, MaxFiles)

\* a tree
CreateEntry ==
    \E d \in DOMAIN fs : \E t \in TreeUniverse :
        Create(d, t, TreeUniverse, MaxEntries)

\* The command line: python remove_dupes.py --base_path ... [--recursive] [--verify] [--run]
Start(r, v, d) ==
    /\ pc = "setup"
    /\ pc' = "main"
    /\ recursive' = r /\ verify_hash' = v /\ do_del' = d
    /\ UNCHANGED << fs, stack, base_path, root_images, originals, oi, cur_dupes,
                    dupes, si, fi, out, error, run, out1, fs0, extN, calls,
                    found, attempts, resolved >>

StartDir == \E v \in BOOLEAN, d \in BOOLEAN : Start(FALSE, v, d)

StartTree == \E r \in BOOLEAN, v \in BOOLEAN, d \in BOOLEAN : Start(r, v, d)

\* the next step of the program reads file entries or file contents
ReadsFiles == pc \in {"main", "get_dupes", "verify", "remove"}

\* An external process removes a file while the first run is under way.  A removal
\* is placed right before the next step that reads files; the steps in between do
\* not depend on it.
ExternalRemove ==
    /\ run = 1
    /\ ReadsFiles
    /\ extN < MaxExternal
    /\ \E p \in DOMAIN fs :
        /\ IsFile(p)
        /\ fs' = Unlink(fs, p)
    /\ extN' = extN + 1
    /\ UNCHANGED << pc, fs0 >>
    /\ UNCHANGED progVars

----------------------------------------------------------------------------
(* main.  Each action is one access to the file system (a glob, the hashing  *)
(* of one original and its candidates, one os.remove, one os.listdir)        *)
(* together with the statements that follow it up to the next access.        *)

\* faulty variants of the handler below: "except:" and no handler at all
RecoveredAll(result) == TRUE
RecoveredNone(result) == FALSE

\* remove_dupes: the exceptions it recovers from (line 124)
Recovered(result) == result = "FileNotFoundError"

\* a faulty variant of the test below: files are removed whatever the flag
DelAlways == TRUE

\* remove_dupes: "if do_del:" (line 121)
DelRequested == do_del

\* lines 132-133: what main prints when get_dupes has returned all
NoDupesLine(all) == IF Len(all) = 0 THEN << <<"No duplicates found">> >> ELSE <<>>

\* where main goes when get_dupes has returned all: into the loops of remove_dupes,
\* or past them when there is no duplicate set
AfterGetDupes(all) == IF Len(all) = 0 THEN "listdir" ELSE "remove"

\* lines 128-131: print, get_all_files, get_originals; get_dupes starts
Discover ==
    /\ pc = "main"
    /\ root_images' = get_all_files(base_path)
    /\ originals' = get_originals(root_images')
    /\ dupes' = <<>> /\ cur_dupes' = <<>> /\ oi' = 1
    /\ si' = 1 /\ fi' = 1
    /\ calls' = Append(calls, base_path)
    /\ found' = Append(found, root_images')
    /\ IF Len(originals') = 0
       THEN /\ out' = Append(out, <<"Checking:", base_path>>) \o NoDupesLine(<<>>)
            /\ pc' = AfterGetDupes(<<>>)
       ELSE /\ out' = Append(out, <<"Checking:", base_path>>)
            /\ pc' = "get_dupes"
    /\ UNCHANGED << fs, recursive, verify_hash, do_del, stack, base_path, error, run,
                    out1, fs0, extN, attempts, resolved >>

\* lines 90-96 (and 102-103 without verification): the candidates of one original
GlobDupes ==
    /\ pc = "get_dupes"
    /\ LET cur == CurDupes(base_path, originals[oi])
           all == AppendDupes(dupes, cur)
       IN  IF verify_hash
           THEN /\ cur_dupes' = cur
                /\ pc' = "verify"
                /\ UNCHANGED << dupes, oi, resolved, out >>
           ELSE /\ dupes' = all
                /\ resolved' = Append(resolved, [call |-> Len(calls),
                                                 orig |-> originals[oi], set |-> cur])
                /\ oi' = oi + 1
                /\ IF oi < Len(originals)
                   THEN UNCHANGED << pc, out >>
                   ELSE /\ out' = out \o NoDupesLine(all)
                        /\ pc' = AfterGetDupes(all)
                /\ UNCHANGED cur_dupes
    /\ UNCHANGED << fs, recursive, verify_hash, do_del, stack, base_path,
                    root_images, originals, si, fi, error, run, out1, fs0, extN,
                    calls, found, attempts >>

\* lines 98-103: hash the original and its candidates, keep the equal ones
VerifyDupes ==
    /\ pc = "verify"
    /\ LET pic_path == originals[oi]
           err == FirstError(HashOrder(pic_path, cur_dupes))
           all == AppendDupes(dupes, Verified(pic_path, cur_dupes))
       IN  IF err # "ok"
           THEN /\ pc' = "crashed"
                /\ error' = [at |-> "hash_file", kind |-> err]
                /\ UNCHANGED << dupes, oi, cur_dupes, resolved, out >>
           ELSE /\ dupes' = all
                /\ resolved' = Append(resolved, [call |-> Len(calls), orig |-> pic_path,
                                                 set |-> Verified(pic_path, cur_dupes)])
                /\ oi' = oi + 1
                /\ cur_dupes' = <<>>
                /\ IF oi < Len(originals)
                   THEN /\ pc' = "get_dupes"
                        /\ UNCHANGED out
                   ELSE /\ out' = out \o NoDupesLine(all)
                        /\ pc' = AfterGetDupes(all)
                /\ UNCHANGED error
    /\ UNCHANGED << fs, recursive, verify_hash, do_del, stack, base_path,
                    root_images, originals, si, fi, run, out1, fs0, extN, calls,
                    found, attempts >>

\* the lines remove_dupes prints for the file at (s, f), before trying to remove it
RemoveLines(s, f) ==
    (IF f = 1 THEN << <<"Removing:">> >> ELSE <<>>) \o << <<"file", dupes[s][f]>> >>

\* lines 117-125: one file of one duplicate set
RemoveOne ==
    /\ pc = "remove"
    /\ LET cur_dupe == dupes[si][fi]
           result == IF DelRequested THEN OsRemove(cur_dupe) ELSE "skipped"
           lastOfSet == fi = Len(dupes[si])
           lastOfAll == lastOfSet /\ si = Len(dupes)
       IN  /\ fs' = IF result = "ok" THEN Unlink(fs, cur_dupe) ELSE fs
           /\ attempts' = IF result # "skipped"
                          THEN Append(attempts, [call |-> Len(calls), path |-> cur_dupe,
                                                 result |-> result])
                          ELSE attempts
           /\ out' = out \o RemoveLines(si, fi)
                         \o (IF result \notin {"ok", "skipped"} /\ Recovered(result)
                             THEN << <<"missing", cur_dupe>> >> ELSE <<>>)
           /\ IF result \in {"ok", "skipped"} \/ Recovered(result)
              THEN /\ si' = IF lastOfSet THEN si + 1 ELSE si
                   /\ fi' = IF lastOfSet THEN 1 ELSE fi + 1
                   /\ pc' = IF lastOfAll THEN "listdir" ELSE "remove"
                   /\ UNCHANGED error
              ELSE /\ pc' = "crashed"
                   /\ error' = [at |-> "os.remove", kind |-> result]
                   /\ UNCHANGED << si, fi >>
    /\ UNCHANGED << recursive, verify_hash, do_del, stack, base_path, root_images,
                    originals, oi, cur_dupes, dupes, run, out1, fs0, extN, calls,
                    found, resolved >>

\* the call stack once every main() that has no subdirectory left has returned
RECURSIVE Unwind(_)
Unwind(st) ==
    IF st # <<>> /\ st[Len(st)] = <<>> THEN Unwind(SubSeq(st, 1, Len(st) - 1)) ELSE st

\* lines 136-140: the subdirectories are listed; main is called for the next
\* directory to visit, or the program ends
ListSubDirs ==
    /\ pc = "listdir"
    /\ LET pushed == IF recursive THEN Append(stack, SubDirs(base_path)) ELSE stack
           st == Unwind(pushed)
       IN  IF st = <<>>
           THEN /\ pc' = "done"
                /\ stack' = st
                /\ UNCHANGED base_path
           ELSE /\ pc' = "main"
                /\ base_path' = Head(st[Len(st)])
                /\ stack' = [st EXCEPT ![Len(st)] = Tail(@)]
    /\ UNCHANGED << fs, recursive, verify_hash, do_del, root_images, originals, oi,
                    cur_dupes, dupes, si, fi, out, error, run, out1, fs0, extN,
                    calls, found, attempts, resolved >>

\* An undisturbed dry run is run a second time on the tree as the first run left it.
RunAgain ==
    /\ pc = "done"
    /\ run = 1
    /\ ~do_del
    /\ extN = 0
    /\ run' = 2
    /\ out1' = out
    /\ out' = <<>>
    /\ base_path' = BasePath
    /\ pc' = "main"
    /\ UNCHANGED << fs, recursive, verify_hash, do_del, stack, root_images,
                    originals, oi, cur_dupes, dupes, si, fi, error, fs0, extN, calls,
                    found, attempts, resolved >>

Step == Discover \/ GlobDupes \/ VerifyDupes \/ RemoveOne \/ ListSubDirs

\* the whole program on a directory tree, with an external process removing files
Next == CreateEntry \/ StartTree \/ Step \/ RunAgain \/ ExternalRemove

Spec == Init /\ [][Next]_vars

\* one directory pass on a single directory of files, undisturbed
DirNext == CreateFile \/ StartDir \/ Step

DirSpec == Init /\ [][DirNext]_vars

----------------------------------------------------------------------------
(* Vocabulary of the properties, defined on the file system as it was when   *)
(* the program started (nothing is created afterwards), not through the      *)
(* program's own string operations                                           *)

Marker == " "

\* the directory and the entry name of a path of the tree
ParentOf(p) == CHOOSE d \in DOMAIN fs0 : \E n \in Range(fs0[d].names) : Join(d, n) = p
EntryName(p) == CHOOSE n \in Range(fs0[ParentOf(p)].names) : Join(ParentOf(p), n) = p

\* paths of the tree other than the base directory
TreePaths == DOMAIN fs0 \ {BasePath}

HasMarker(n) == Marker \in Range(n)

\* the text before the first "." of a name
BaseOf(n) ==
    CHOOSE b \in {SubSeq(n, 1, k) : k \in 0..Len(n)} :
        /\ "." \notin Range(b)
        /\ Len(b) = Len(n) \/ n[Len(b) + 1] = "."

\* the text after the last "." of a name (the whole name if it has none)
ExtOf(n) ==
    CHOOSE e \in {SubSeq(n, k, Len(n)) : k \in 1..(Len(n) + 1)} :
        /\ "." \notin Range(e)
        /\ Len(e) = Len(n) \/ n[Len(n) - Len(e)] = "."

\* c is a filename-matching candidate of original o: same directory, name begins
\* with o's base name, contains the marker, ends with o's extension
NameMatches(c, o) ==
    /\ ParentOf(c) = ParentOf(o)
    /\ StartsWith(EntryName(c), BaseOf(EntryName(o)))
    /\ HasMarker(EntryName(c))
    /\ EndsWith(EntryName(c), ExtOf(EntryName(o)))

\* position of the first occurrence of x in s, 0 if none
Pos(s, x) ==
    IF \E i \in 1..Len(s) : s[i] = x
    THEN CHOOSE i \in 1..Len(s) : s[i] = x /\ \A j \in 1..(i - 1) : s[j] # x
    ELSE 0

\* number of occurrences of x in s
Count(s, x) == Cardinality({i \in 1..Len(s) : s[i] = x})

\* get_dupes has returned for the directory and nothing has been removed yet
Resolved == oi > Len(originals) /\ pc \in {"remove", "listdir"} /\ si = 1 /\ fi = 1

\* the paths os.remove was called with, in order
AttemptPaths == [k \in 1..Len(attempts) |-> attempts[k].path]

\* the members of all duplicate sets resolved so far, in order
RECURSIVE Members(_)
Members(rs) == IF rs = <<>> THEN <<>> ELSE Head(rs).set \o Members(Tail(rs))

\* the directories of the tree, each before its subdirectories, in listing order
RECURSIVE PreOrder(_)
PreOrder(d) ==
    LET subs == SelectSeq(fs0[d].names, LAMBDA n : fs0[Join(d, n)].isdir)
    IN  <<d>> \o FlatMap(LAMBDA n : PreOrder(Join(d, n)), subs)

----------------------------------------------------------------------------
(* C1: in one directory pass no file classified as an Original is a member  *)
(* of any Duplicate Set, with or without verification, and os.remove is     *)
(* never called on an Original.                                             *)
C1_OriginalsNeverDuplicates ==
    /\ \A k \in 1..Len(resolved) :
           Range(resolved[k].set) \cap Range(originals) = {}
    /\ \A s \in 1..Len(dupes) : Range(dupes[s]) \cap Range(originals) = {}
    /\ Range(cur_dupes) \cap Range(originals) = {}
    /\ \A k \in 1..Len(attempts) : attempts[k].path \notin Range(originals)

\* a commit run has deleted a duplicate of an original and finished
C1_Witness ==
    /\ pc = "done" /\ do_del
    /\ Len(originals) > 0
    /\ \E k \in 1..Len(attempts) : attempts[k].result = "ok"

(* C2: with verification, once get_dupes has returned, a filename-matching  *)
(* candidate of an Original is in that Original's Duplicate Set if and only *)
(* if its content digest equals the Original's.                             *)
C2_VerifiedIffSameDigest ==
    (Resolved /\ verify_hash) =>
        \A k \in 1..Len(resolved) : \A c \in TreePaths :
            NameMatches(c, resolved[k].orig) =>
                (c \in Range(resolved[k].set)
                    <=> fs0[c].data = fs0[resolved[k].orig].data)

(* C3: without verification, once get_dupes has returned, every filename-   *)
(* matching candidate of an Original occurs exactly once in its Duplicate   *)
(* Set, and the members are in discovery order.                             *)
C3_AllCandidatesOnceInOrder ==
    (Resolved /\ ~verify_hash) =>
        \A k \in 1..Len(resolved) :
            /\ \A c \in TreePaths :
                   NameMatches(c, resolved[k].orig) => Count(resolved[k].set, c) = 1
            /\ \A i, j \in 1..Len(resolved[k].set) :
                   (/\ i < j
                    /\ Pos(root_images, resolved[k].set[i]) # 0
                    /\ Pos(root_images, resolved[k].set[j]) # 0)
                   => Pos(root_images, resolved[k].set[i])
                          < Pos(root_images, resolved[k].set[j])

(* C4: every member of a Duplicate Set has the file extension of the set's  *)
(* Original.                                                                *)
C4_SameExtension ==
    \A k \in 1..Len(resolved) : \A m \in Range(resolved[k].set) :
        ExtOf(EntryName(m)) = ExtOf(EntryName(resolved[k].orig))

(* C9: get_originals returns exactly the discovered files whose entry name  *)
(* has no marker, in discovery order, whatever the directory part of the    *)
(* path contains.                                                           *)
C9_OriginalsExactlyUnmarked ==
    (pc \notin {"setup", "main"}) =>
        /\ \A p \in Range(root_images) :
               p \in Range(originals) <=> ~HasMarker(EntryName(p))
        /\ Range(originals) \subseteq Range(root_images)
        /\ \A i, j \in 1..Len(originals) :
               i < j => Pos(root_images, originals[i]) < Pos(root_images, originals[j])

\* the base directory's name has the marker; a marked and an unmarked file were found
C9_Witness ==
    /\ pc = "get_dupes"
    /\ HasMarker(BasePath)
    /\ Len(originals) > 0
    /\ Len(originals) < Len(root_images)

C5_OnlyMissingFileRecovered ==
    /\ \A k \in 1..Len(attempts) :
           attempts[k].result = "FileNotFoundError"
               => Count(out, <<"missing", attempts[k].path>>) >= 1
    /\ \A k \in 1..Len(attempts) :
           attempts[k].result \notin {"ok", "FileNotFoundError"}
               => /\ k = Len(attempts)
                  /\ pc = "crashed"
                  /\ error = [at |-> "os.remove", kind |-> attempts[k].result]
    /\ error.at = "os.remove" => error.kind # "FileNotFoundError"
    /\ (pc = "done" /\ do_del) =>
           /\ AttemptPaths = Members(resolved)
           /\ recursive => calls = PreOrder(BasePath)

\* a file was missing at its removal and the next file was removed after it
C5_Witness ==
    /\ pc = "done" /\ do_del
    /\ \E k \in 1..(Len(attempts) - 1) :
           /\ attempts[k].result = "FileNotFoundError"
           /\ attempts[k + 1].result = "ok"

(* C6: when hash_file cannot open a file the run ends there, and no file of *)
(* the directory being resolved has been deleted by the run.                *)
C6_DigestErrorHaltsBeforeDeletion ==
    error.at = "hash_file" =>
        /\ pc = "crashed"
        /\ \A k \in 1..Len(attempts) :
               attempts[k].result = "ok" => ParentOf(attempts[k].path) # base_path

(* C7: a dry run leaves the file system as it was, calls os.remove never,   *)
(* and a second dry run over the unchanged tree prints what the first did.  *)
C7_DryRunChangesNothing ==
    /\ (~do_del /\ extN = 0) => fs = fs0
    /\ ~do_del => attempts = <<>>
    /\ (run = 2 /\ pc = "done") => out = out1

\* two recursive dry runs have finished and reported a duplicate
C7_Witness ==
    /\ run = 2 /\ pc = "done" /\ recursive
    /\ Len(calls) >= 4
    /\ \E i \in 1..Len(out) : out[i][1] = "file"

\* the media files of directory d: its entries, other than hidden ones, whose name
\* ends with "." and a recognised file type
MediaFiles(d) ==
    {Join(d, n) : n \in {m \in Range(fs0[d].names) :
        /\ m[1] # "."
        /\ \E t \in 1..Len(FileTypes) : EndsWith(m, <<".">> \o FileTypes[t])}}

(* C8: when main has returned, it was called once for every directory of    *)
(* the tree, a directory before its subdirectories, and (when no file was   *)
(* removed meanwhile) the discovery of each call found the media files of   *)
(* its directory; without recursion only the base directory was processed.  *)
C8_EveryDirectoryOnce ==
    (pc = "done" /\ run = 1) =>
        LET dirs == IF recursive THEN PreOrder(BasePath) ELSE <<BasePath>>
        IN  /\ calls = dirs
            /\ fs = fs0 =>
                   \A k \in 1..Len(dirs) : Range(found[k]) = MediaFiles(dirs[k])

====
